---- MODULE Spec2Model ----
(***************************************************************************)
(* The asynchronous conversion job manager of PDF2md                       *)
(* (backend/service/convert_service.py), the file store it consults        *)
(* (backend/service/file_service.py), the converter entry point it calls   *)
(* (backend/service/pdf_converter_v2.py) and the two HTTP handlers in      *)
(* front of it (backend/routes/file_routes.py).                            *)
(*                                                                         *)
(* Threads: one daemon worker per job (_run_convert_task), and a polling   *)
(* client that issues get_task_status calls.  Neither takes a lock, so a   *)
(* step of the model is one statement of the source: one assignment to a   *)
(* field of the job, or one read of a field by get_task_status.            *)
(*                                                                         *)
(* The specifications:                                                     *)
(*   Spec           the job manager behind its HTTP routes, and the route  *)
(*                  GET /file/info/{file_id};                              *)
(*   FairSpec       Spec with every worker thread scheduled fairly;        *)
(*   ConverterSpec  PDFConverterV2.convert_pdf and convert_pdf_file called *)
(*                  directly, as the tests and the command line do, on     *)
(*                  documents of a few pages;                              *)
(*   TimedSpec      the same calls at their times on the clock;            *)
(*   PageSpec       _process_single_page on one page, over the layouts of  *)
(*                  text blocks and tables;                                *)
(*   TableSpec      _convert_table_to_markdown on one table;               *)
(*   OcrSpec        OCRService (backend/service/ocr_service.py) on one     *)
(*                  image.                                                 *)
(***************************************************************************)
EXTENDS Integers, Sequences, FiniteSets, TLC

\* ------------------------------------------------------------------ bounds
\* Number of jobs that are submitted in one run.
MaxTasks == 1
\* Largest value time.time() returns in one run.
MaxClock == 1

\* Python's None, and a value that is not None.  An Optional field holds
\* None or Some(v).
None == <<>>
Some(v) == <<v>>

\* --------------------------------------------------- the upload directory
\* The files of the upload directory (FileService.upload_dir), as
\* name = stem + ext.  The directory also receives files that are no PDF:
\* DOCXService.save_leaf_section_as_docx writes its .docx output there.
\*   "fileA.pdf"  an uploaded file, a real PDF
\*   "fileC.docx" a Word document
UploadDir ==
    { [stem |-> "fileA", ext |-> ".pdf",  content |-> "pdf"],
      [stem |-> "fileC", ext |-> ".docx", content |-> "docx"] }

\* The file ids a client sends; "fileX" names no file at all.
FileIds == {"fileA", "fileC", "fileX"}

\* file_type_mapping of _detect_file_type.
file_type_mapping(extension) ==
    CASE extension = ".pdf"  -> "pdf"
      [] extension = ".docx" -> "document"
      [] extension = ".xls"  -> "spreadsheet"
      [] extension = ".xlsx" -> "spreadsheet"
      [] extension = ".zip"  -> "archive"
      [] extension = ".rar"  -> "archive"
      [] OTHER               -> "unknown"

\* 'pdf' in filename.lower(): the file name is stem + extension, and no stem
\* of UploadDir contains the letters pdf.
NameContainsPdf(f) == f.ext = ".pdf"

\* FileService._detect_file_type (no stem of UploadDir contains 'image',
\* 'photo' or 'picture').
_detect_file_type(f) ==
    IF NameContainsPdf(f) THEN "pdf" ELSE file_type_mapping(f.ext)

\* FileService.get_file_info: scans the directory for the one name
\* file_id + ".pdf"; None when there is no such name.
get_file_info(file_id) ==
    LET hits == { f \in UploadDir : f.stem = file_id /\ f.ext = ".pdf" }
    IN  IF hits = {} THEN None
        ELSE LET f == CHOOSE g \in hits : TRUE
             IN  Some([file_id |-> file_id, file_path |-> f,
                       file_type |-> _detect_file_type(f)])

\* FileService.list_files: every file of the directory, its id the stem of
\* its name, with its detected type.
list_files ==
    { [file_id |-> f.stem, file_type |-> _detect_file_type(f)] : f \in UploadDir }

\* --------------------------------------------------------- the converter
\* The parameters PDFConverterV2.convert_pdf declares (besides self).
ConvertPdfParams == {"pdf_path", "output_path", "start_page", "end_page"}

\* str(e) of the TypeError Python raises when a call passes a keyword that
\* the function does not declare; the body of the function does not run.
TypeError == "convert_pdf() got an unexpected keyword argument"

\* PDFConverterV2._generate_output_path.
_generate_output_path(pdf_path, now) ==
    [stem |-> pdf_path.stem, timestamp |-> now]

\* PDFConverterV2.convert_pdf called as convert_pdf(pdf_path, **kwargs) at
\* wall-clock time now.  The outcome is either an exception that leaves the
\* call (raised) or the returned dict (ret).
\*   - a keyword the signature does not declare: TypeError at the call;
\*   - _validate_inputs (outside the try): FileNotFoundError, ValueError;
\*   - fitz.open fails inside the try: the failure dict;
\*   - otherwise the success dict.
\* now is the value of time.time() at line 102, the first statement of the
\* body, and of the later reads.
convert_pdf(pdf_path, kwargs, now) ==
    IF ~(kwargs \subseteq ConvertPdfParams)
    THEN [raised |-> TRUE, exc |-> TypeError, ret |-> None]
    ELSE IF pdf_path \notin UploadDir
    THEN [raised |-> TRUE, exc |-> "FileNotFoundError", ret |-> None]
    ELSE IF pdf_path.ext /= ".pdf"
    THEN [raised |-> TRUE, exc |-> "ValueError", ret |-> None]
    ELSE IF pdf_path.content /= "pdf"
    THEN [raised |-> FALSE, exc |-> "",
          ret |-> Some([success |-> FALSE, error |-> "FileDataError"])]
    ELSE [raised |-> FALSE, exc |-> "",
          ret |-> Some([success |-> TRUE,
                        output_path |-> _generate_output_path(pdf_path, now)])]

\* ------------------------------------------------ the converter's strings
\* The bounds of the layouts and documents the converter is run on.
\* Largest number of blocks PyMuPDF reports on a page.
MaxBlocks == 2
\* Largest number of tables pdfplumber finds on a page.
MaxTables == 2
\* Largest number of pages of a document.
MaxPages == 2
\* Number of calls made on one converter.
MaxCalls == 2

\* A Python str the converter builds is a sequence of pieces; '' is <<>>.
\* A piece is one of
\*   "nl"          the separator '\n' of a join
\*   "header"      "\n## 第 {n} 页\n"                          (line 243)
\*   "error"       "\n<!-- 第{n}页处理错误: {e} -->\n"          (line 234)
\*   "message"     "处理第{n}页时发生错误: {e}"                 (line 229)
\*   "text"        the formatted text of the block whose text is n
\*   "placeholder" "<!-- TABLE_PLACEHOLDER_{n} -->"           (line 573)
\*   "table"       the Markdown of a table with the cells data
Tok(kind, n) == [kind |-> kind, n |-> n, data |-> <<>>]

NL == Tok("nl", 0)

\* sep.join(parts) for a list of strings.
RECURSIVE join(_, _)
join(sep, parts) ==
    IF parts = <<>> THEN <<>>
    ELSE IF Len(parts) = 1 THEN parts[1]
    ELSE parts[1] \o <<sep>> \o join(sep, Tail(parts))

\* s.replace(old, new) where old is one piece.
RECURSIVE replace(_, _, _)
replace(s, old, new) ==
    IF s = <<>> THEN <<>>
    ELSE (IF s[1] = old THEN new ELSE <<s[1]>>) \o replace(Tail(s), old, new)

\* ------------------------------------------------------ the page layout
\* A page as the two libraries report it:
\*   blocks  page.get_text("dict")["blocks"] of PyMuPDF, in its order; a
\*           block has a bbox (x0, y0, x1, y1) with y growing downwards,
\*           lines = whether it has the key "lines" (a text block, not an
\*           image), and text = its text, 0 for text that is blank;
\*   tables  page.find_tables() of pdfplumber, in its order; a table has a
\*           bbox and data = table.extract() as _extract_table_safely
\*           cleans it, rows of cells, each a stripped str;
\*   raises  whether processing the page raises outside the handlers of
\*           the extraction steps (any Exception, a MemoryError say).
\* The fraction a/b, b > 0, is <<a, b>>.  With whole coordinates both areas
\* and 0.7 = 7/10 are exact, and a correctly rounded float division orders
\* the quotients as the fractions are ordered.
Ratio(a, b) == <<a, b>>
Greater(r, s) == r[1] * s[2] > s[1] * r[2]

max(a, b) == IF a >= b THEN a ELSE b
min(a, b) == IF a <= b THEN a ELSE b

\* Python's sorted(seq, key=lambda b: b["bbox"][1]) and
\* list.sort(key=lambda x: x[0][1]): stable, ascending in y0.
RECURSIVE sorted(_)
sorted(seq) ==
    IF seq = <<>> THEN <<>>
    ELSE LET front == sorted(SubSeq(seq, 1, Len(seq) - 1))
             last == seq[Len(seq)]
             k == Cardinality({ j \in 1..Len(front) :
                                  front[j].bbox[2] <= last.bbox[2] })
         IN  SubSeq(front, 1, k) \o <<last>> \o SubSeq(front, k + 1, Len(front))

\* PDFConverterV2._bbox_overlap.
_bbox_overlap(bbox1, bbox2) ==
    ~ ( \/ bbox1[3] < bbox2[1]
        \/ bbox1[1] > bbox2[3]
        \/ bbox1[4] < bbox2[2]
        \/ bbox1[2] > bbox2[4] )

\* PDFConverterV2._bbox_overlap_ratio: the part of bbox1's area inside bbox2.
_bbox_overlap_ratio(bbox1, bbox2) ==
    LET overlap_x_min == max(bbox1[1], bbox2[1])
        overlap_y_min == max(bbox1[2], bbox2[2])
        overlap_x_max == min(bbox1[3], bbox2[3])
        overlap_y_max == min(bbox1[4], bbox2[4])
        overlap_area == (overlap_x_max - overlap_x_min)
                          * (overlap_y_max - overlap_y_min)
        bbox1_area == (bbox1[3] - bbox1[1]) * (bbox1[4] - bbox1[2])
    IN  IF overlap_x_max <= overlap_x_min \/ overlap_y_max <= overlap_y_min
        THEN Ratio(0, 1)
        ELSE IF bbox1_area = 0 THEN Ratio(0, 1)
        ELSE Ratio(overlap_area, bbox1_area)

\* ConversionConfig.table_min_columns.
table_min_columns == 2

\* PDFConverterV2._detect_table_positions: each table's bbox widened by 2 and
\* cut to the page, with its index in find_tables() (from 0), sorted by y0.
_detect_table_positions(pg) ==
    sorted([ n \in 1..Len(pg.tables) |->
               LET bbox == pg.tables[n].bbox
               IN  [bbox |-> << max(0, bbox[1] - 2), max(0, bbox[2] - 2),
                               min(pg.width, bbox[3] + 2),
                               min(pg.height, bbox[4] + 2) >>,
                    i |-> n - 1] ])

\* Lines 559-567 of _extract_text_with_table_placeholders: table_idx and
\* overlap_ratio after the first n entries of table_positions.  table_idx is
\* the position of the entry in the sorted list, from 0.
RECURSIVE BestTable(_, _, _)
BestTable(block_bbox, table_positions, n) ==
    IF n = 0 THEN [table_idx |-> -1, overlap_ratio |-> Ratio(0, 1)]
    ELSE LET before == BestTable(block_bbox, table_positions, n - 1)
             table_bbox == table_positions[n].bbox
             current_ratio == _bbox_overlap_ratio(block_bbox, table_bbox)
         IN  IF /\ _bbox_overlap(block_bbox, table_bbox)
                /\ Greater(current_ratio, before.overlap_ratio)
             THEN [table_idx |-> n - 1, overlap_ratio |-> current_ratio]
             ELSE before

\* PDFConverterV2._format_text_block with preserve_formatting, the default.
_format_text_block(block) ==
    IF block.text = 0 THEN <<>> ELSE << Tok("text", block.text) >>

\* The body of the loop with `table_idx not in processed_table_indices` taken
\* as true.
PlaceBlock_every_time(before, block, table_positions) ==
    LET best == BestTable(block.bbox, table_positions, Len(table_positions))
        block_text == _format_text_block(block)
    IN  IF ~block.lines THEN before
        ELSE IF best.table_idx >= 0 /\ Greater(best.overlap_ratio, Ratio(7, 10))
        THEN [formatted_content |->
                  before.formatted_content
                    \o << <<>>, << Tok("placeholder", best.table_idx) >>, <<>> >>,
              processed_table_indices |->
                  before.processed_table_indices \cup {best.table_idx}]
        ELSE IF block_text /= <<>>
        THEN [before EXCEPT !.formatted_content = Append(@, block_text)]
        ELSE before

\* The body of the loop without the `continue` of line 580.
PlaceBlock_no_continue(before, block, table_positions) ==
    LET best == BestTable(block.bbox, table_positions, Len(table_positions))
        block_text == _format_text_block(block)
        placed ==
            IF /\ best.table_idx >= 0 /\ Greater(best.overlap_ratio, Ratio(7, 10))
               /\ best.table_idx \notin before.processed_table_indices
            THEN [formatted_content |->
                      before.formatted_content
                        \o << <<>>, << Tok("placeholder", best.table_idx) >>, <<>> >>,
                  processed_table_indices |->
                      before.processed_table_indices \cup {best.table_idx}]
            ELSE before
    IN  IF ~block.lines THEN before
        ELSE IF block_text /= <<>>
        THEN [placed EXCEPT !.formatted_content = Append(@, block_text)]
        ELSE placed

\* The body of the loop of _extract_text_with_table_placeholders
\* (lines 555-585) for one block: formatted_content and
\* processed_table_indices after it, from their values before it.
PlaceBlock(before, block, table_positions) ==
    LET best == BestTable(block.bbox, table_positions, Len(table_positions))
        block_text == _format_text_block(block)
    IN  IF ~block.lines THEN before
        ELSE IF best.table_idx >= 0 /\ Greater(best.overlap_ratio, Ratio(7, 10))
        THEN IF best.table_idx \notin before.processed_table_indices
             THEN [formatted_content |->
                       before.formatted_content
                         \o << <<>>, << Tok("placeholder", best.table_idx) >>, <<>> >>,
                   processed_table_indices |->
                       before.processed_table_indices \cup {best.table_idx}]
             ELSE before
        ELSE IF block_text /= <<>>
        THEN [before EXCEPT !.formatted_content = Append(@, block_text)]
        ELSE before

\* Lines 548-585: formatted_content and processed_table_indices after the
\* first n of the sorted blocks.
RECURSIVE PlaceBlocks(_, _, _)
PlaceBlocks(sorted_blocks, table_positions, n) ==
    IF n = 0 THEN [formatted_content |-> <<>>, processed_table_indices |-> {}]
    ELSE PlaceBlock(PlaceBlocks(sorted_blocks, table_positions, n - 1),
                    sorted_blocks[n], table_positions)

\* The list formatted_content that _extract_text_with_table_placeholders has
\* built when it reaches line 587.
formatted_content(pg) ==
    LET sorted_blocks == sorted(pg.blocks)
    IN  PlaceBlocks(sorted_blocks, _detect_table_positions(pg),
                    Len(sorted_blocks)).formatted_content

\* PDFConverterV2._extract_text_with_table_placeholders.
_extract_text_with_table_placeholders(pg) == join(NL, formatted_content(pg))

\* PDFConverterV2._is_valid_table.
_is_valid_table(table_data) ==
    /\ Len(table_data) >= 2
    /\ \E r \in 1..Len(table_data) : Len(table_data[r]) >= table_min_columns
    /\ \E r \in 1..Len(table_data) :
          \E c \in 1..Len(table_data[r]) : table_data[r][c] /= ""

\* The cleaning of one cell in _clean_table_data (lines 379-387): a line
\* break becomes <br> and runs of blanks one blank.  The cells of the model
\* are stripped and hold single blanks only.
clean_cell(cell) == IF cell = "x\ny" THEN "x<br>y" ELSE cell

\* PDFConverterV2._clean_table_data.
_clean_table_data(table_data) ==
    [ r \in 1..Len(table_data) |->
        [ c \in 1..Len(table_data[r]) |-> clean_cell(table_data[r][c]) ] ]

\* The data rows with a row longer than the header kept whole.
table_row_not_cut(row, headers) ==
    IF Len(row) = Len(headers) THEN row
    ELSE row \o [ c \in 1..(Len(headers) - Len(row)) |-> "" ]

\* Lines 359-364 of _convert_table_to_markdown: the cells of the line emitted
\* for a data row, under a header of Len(headers) cells.
table_row(row, headers) ==
    IF Len(row) = Len(headers) THEN row
    ELSE SubSeq(row \o [ c \in 1..(Len(headers) - Len(row)) |-> "" ],
                1, Len(headers))

\* Lines 347-364 of _convert_table_to_markdown: markdown_lines, each line
\* "| " + " | ".join(cells) + " |" held as its cells.
markdown_lines(table_data) ==
    LET cleaned_table == _clean_table_data(table_data)
        headers == cleaned_table[1]
    IN  << headers, [ c \in 1..Len(headers) |-> "---" ] >>
          \o [ r \in 1..(Len(cleaned_table) - 1) |->
                 table_row(cleaned_table[r + 1], headers) ]

\* PDFConverterV2._convert_table_to_markdown: '' for fewer than two rows,
\* else one piece that holds the lines.
_convert_table_to_markdown(table_data) ==
    IF table_data = <<>> \/ Len(table_data) < 2 THEN <<>>
    ELSE << [kind |-> "table", n |-> 0, data |-> markdown_lines(table_data)] >>

\* PDFConverterV2._extract_single_table: '' for a table that is not valid.
_extract_single_table(table) ==
    IF table.data /= <<>> /\ Len(table.data) > 1 /\ _is_valid_table(table.data)
    THEN _convert_table_to_markdown(table.data)
    ELSE <<>>

\* PDFConverterV2._extract_tables_with_positions: the dict from the index of
\* a table in find_tables() (from 0) to its Markdown, valid tables only.
_extract_tables_with_positions(pg) ==
    [ i \in { j \in 0..(Len(pg.tables) - 1) :
                _extract_single_table(pg.tables[j + 1]) /= <<>> }
        |-> _extract_single_table(pg.tables[i + 1]) ]

\* The loop of _replace_placeholders_with_tables (lines 640-643) over the
\* keys below k in ascending order.
RECURSIVE ReplaceBelow(_, _, _)
ReplaceBelow(text, tables_dict, k) ==
    IF k = 0 THEN text
    ELSE LET result == ReplaceBelow(text, tables_dict, k - 1)
         IN  IF (k - 1) \in DOMAIN tables_dict
             THEN replace(result, Tok("placeholder", k - 1), tables_dict[k - 1])
             ELSE result

\* PDFConverterV2._replace_placeholders_with_tables.
_replace_placeholders_with_tables(text_with_placeholders, tables_dict) ==
    IF text_with_placeholders = <<>> \/ DOMAIN tables_dict = {}
    THEN text_with_placeholders
    ELSE ReplaceBelow(text_with_placeholders, tables_dict, MaxTables)

\* PDFConverterV2._process_single_page for the page with index page_idx.
_process_single_page(pg, page_idx) ==
    LET page_num == page_idx + 1
        text_with_placeholders == _extract_text_with_table_placeholders(pg)
        tables_dict == _extract_tables_with_positions(pg)
        final_content ==
            _replace_placeholders_with_tables(text_with_placeholders, tables_dict)
    IN  join(NL, << << Tok("header", page_num) >>, final_content >>)

\* ------------------------------------------------- layouts and documents
\* The tables a page is drawn with, on a page of 20 by 20: in the upper
\* half a table of two rows of two cells (valid), one of a single row and
\* one of blank cells; in the lower half another valid table and one of a
\* single column.
Table(bbox, data) == [bbox |-> bbox, data |-> data]
UpperTable == Table(<<2, 4, 10, 12>>, << <<"a", "b">>, <<"c", "d">> >>)
LowerTable == Table(<<2, 14, 10, 18>>, << <<"e", "f">>, <<"g", "">> >>)
Tables ==
    { UpperTable, LowerTable,
      Table(<<2, 4, 10, 12>>, << <<"a", "b">> >>),
      Table(<<2, 4, 10, 12>>, << <<"", "">>, <<"", "">> >>),
      Table(<<2, 14, 10, 18>>, << <<"e">>, <<"g">> >>) }

\* The blocks a page is drawn with.  A table's area is its bbox widened by 2:
\* (0, 2, 12, 14) for the upper table.
\*   1  inside the upper table, near its top
\*   2  inside the upper table, further down
\*   3  to the right of the upper table, overlapping nothing
\*   4  7/10 of it inside the upper table's area
\*   5  8/11 of it inside the upper table, its foot below that table's
\*      area and 3/11 of it inside the lower table's area
\*   6  inside the lower table
\*   7  above both tables
\*   8  3/5 of it inside the upper table, all of it inside that table's
\*      area
\* and a block of blank text and an image block.
TextBlock(text, bbox) == [bbox |-> bbox, lines |-> TRUE, text |-> text]
Blocks ==
    { TextBlock(1, <<3, 5, 9, 7>>),
      TextBlock(2, <<3, 9, 9, 11>>),
      TextBlock(3, <<14, 6, 18, 8>>),
      TextBlock(4, <<5, 8, 15, 10>>),
      TextBlock(5, <<3, 4, 9, 15>>),
      TextBlock(6, <<3, 15, 9, 17>>),
      TextBlock(7, <<2, 0, 10, 1>>),
      TextBlock(8, <<3, 9, 9, 14>>),
      TextBlock(0, <<14, 10, 18, 11>>),
      [bbox |-> <<3, 5, 9, 7>>, lines |-> FALSE, text |-> 0] }

\* The sequences over S of length at most n.
SeqUpTo(S, n) == UNION { [1..k -> S] : k \in 0..n }

Page(blocks, tables, raises) ==
    [width |-> 20, height |-> 20, blocks |-> blocks, tables |-> tables,
     raises |-> raises]

\* The pages _process_single_page is run on by itself.
Layouts ==
    { Page(blocks, tables, FALSE) :
        blocks \in SeqUpTo(Blocks, MaxBlocks), tables \in SeqUpTo(Tables, MaxTables) }

NoPage == Page(<<>>, <<>>, FALSE)

\* The pages a document is made of: a page of text, a page with one valid
\* table and a block inside it, and a page whose processing raises.
TextPage == Page(<< TextBlock(7, <<2, 0, 10, 1>>) >>, <<>>, FALSE)
TablePage ==
    Page(<< TextBlock(1, <<3, 5, 9, 7>>) >>,
         << UpperTable >>,
         FALSE)
BadPage == Page(<< TextBlock(7, <<2, 0, 10, 1>>) >>, <<>>, TRUE)
DocPages == {TextPage, TablePage, BadPage}

\* The documents stored as fileA.pdf: one page at least.
Docs == SeqUpTo(DocPages, MaxPages) \ {<<>>}

\* ------------------------------------------- the converter called directly
\* ConversionConfig.chunk_size, and the chunk sizes the tests make a converter
\* with.
DefaultChunkSize == 50
ChunkSizes == {1, 10}

\* PDFConverterV2.__init__: the config and the counters of processing_stats
\* (the two times it keeps are left out).  errors holds one piece per
\* message.
PDFConverterV2(chunk_size) ==
    [chunk_size |-> chunk_size,
     processing_stats |-> [total_pages |-> 0, processed_pages |-> 0,
                           tables_found |-> 0, errors |-> <<>>]]

\* The paths a direct caller passes: the files of the upload directory and
\* "test.pdf", which names no file.
TestPdf == [stem |-> "test", ext |-> ".pdf", content |-> ""]
Paths == UploadDir \cup {TestPdf}

\* os.path.exists(pdf_path).
exists(pdf_path) == pdf_path \in UploadDir

\* PDFConverterV2._validate_inputs: the exception it raises, "" for none.
\* end_page is None or Some(n).
_validate_inputs(pdf_path, start_page, end_page) ==
    IF ~exists(pdf_path) THEN "FileNotFoundError"
    ELSE IF pdf_path.ext /= ".pdf" THEN "ValueError"
    ELSE IF start_page < 1 THEN "ValueError"
    ELSE IF end_page /= None /\ end_page[1] < start_page THEN "ValueError"
    ELSE ""

\* The body of the loop with the failing page counted as processed.
PageStep_counts_failed(before, pg, page_num) ==
    IF ~pg.raises
    THEN [batch_content |->
              Append(before.batch_content, _process_single_page(pg, page_num)),
          stats |-> [before.stats EXCEPT !.processed_pages = @ + 1]]
    ELSE [batch_content |->
              Append(before.batch_content, << Tok("error", page_num + 1) >>),
          stats |-> [before.stats EXCEPT
                        !.processed_pages = @ + 1,
                        !.errors = Append(@, Tok("message", page_num + 1))]]

\* The body of the loop of _process_page_batch (lines 214-234) for the page
\* pg with index page_num: batch_content and processing_stats after it, from
\* their values before it.
PageStep(before, pg, page_num) ==
    IF ~pg.raises
    THEN [batch_content |->
              Append(before.batch_content, _process_single_page(pg, page_num)),
          stats |-> [before.stats EXCEPT !.processed_pages = @ + 1]]
    ELSE [batch_content |->
              Append(before.batch_content, << Tok("error", page_num + 1) >>),
          stats |-> [before.stats EXCEPT
                        !.errors = Append(@, Tok("message", page_num + 1))]]

\* The loop of _process_page_batch (lines 213-234) over the first n pages
\* from index batch_start.
RECURSIVE PageBatch(_, _, _, _)
PageBatch(d, batch_start, n, stats) ==
    IF n = 0 THEN [batch_content |-> <<>>, stats |-> stats]
    ELSE PageStep(PageBatch(d, batch_start, n - 1, stats),
                  d[batch_start + n], batch_start + n - 1)

\* Line 236 of _process_page_batch: what it returns, and processing_stats.
BatchOf(loop) ==
    [content |-> join(NL, loop.batch_content), stats |-> loop.stats]

\* PDFConverterV2._process_page_batch for the pages with index start_idx up
\* to end_idx - 1: the string returned, and processing_stats afterwards.
_process_page_batch(d, start_idx, end_idx, stats) ==
    BatchOf(PageBatch(d, start_idx, end_idx - start_idx, stats))

\* The body of the loop with an empty line put after each batch.
BatchStep_blank_line(before, batch) ==
    [markdown_parts |-> Append(before.markdown_parts, batch.content \o <<NL>>),
     stats |-> batch.stats]

\* The body of the loop of _process_pages_in_batches (lines 195-205):
\* markdown_parts and processing_stats after the batch.
BatchStep(before, batch) ==
    [markdown_parts |-> Append(before.markdown_parts, batch.content),
     stats |-> batch.stats]

\* The loop of _process_pages_in_batches (lines 194-205) from batch_start on,
\* given markdown_parts and processing_stats so far.
RECURSIVE Batches(_, _, _, _, _)
Batches(d, batch_start, end_page, chunk_size, before) ==
    IF batch_start >= end_page THEN before
    ELSE Batches(d, batch_start + chunk_size, end_page, chunk_size,
                 BatchStep(before,
                           _process_page_batch(
                               d, batch_start,
                               min(batch_start + chunk_size, end_page),
                               before.stats)))

\* Line 207 of _process_pages_in_batches: what it returns, and
\* processing_stats.
MarkdownOf(loop) ==
    [markdown |-> join(NL, loop.markdown_parts), stats |-> loop.stats]

\* The batches taken from the page after start_page on.
_process_pages_in_batches_from_next(d, start_page, end_page, chunk_size, stats) ==
    MarkdownOf(Batches(d, start_page, end_page, chunk_size,
                       [markdown_parts |-> <<>>, stats |-> stats]))

\* PDFConverterV2._process_pages_in_batches for the pages start_page to
\* end_page (from 1): the Markdown, and processing_stats afterwards.
_process_pages_in_batches(d, start_page, end_page, chunk_size, stats) ==
    MarkdownOf(Batches(d, start_page - 1, end_page, chunk_size,
                       [markdown_parts |-> <<>>, stats |-> stats]))

\* Lines 144-151 of convert_pdf: the outcome of a conversion that got
\* through its pages.  _save_output is taken to succeed.
Converted(cv, done) ==
    [raised |-> "",
     ret |-> Some([success |-> TRUE,
                   pages_processed |-> done.stats.processed_pages,
                   tables_found |-> done.stats.tables_found,
                   errors |-> done.stats.errors]),
     markdown |-> Some(done.markdown),
     converter |-> [cv EXCEPT !.processing_stats = done.stats]]

\* Lines 153-161 of convert_pdf: the outcome when fitz.open raises.
NotConverted(cv, errors) ==
    [raised |-> "",
     ret |-> Some([success |-> FALSE, error |-> "FileDataError", errors |-> errors]),
     markdown |-> None,
     converter |-> [cv EXCEPT !.processing_stats.errors = errors]]

\* PDFConverterV2.convert_pdf(pdf_path, start_page=, end_page=) on the
\* converter cv, d being the document fitz.open finds at a path that holds a
\* PDF: the exception that leaves the call (raised, "" for none), the dict
\* returned, the content handed to _save_output, and the converter
\* afterwards.
run_convert_pdf(cv, d, pdf_path, start_page, end_page) ==
    IF _validate_inputs(pdf_path, start_page, end_page) /= ""
    THEN [raised |-> _validate_inputs(pdf_path, start_page, end_page),
          ret |-> None, markdown |-> None, converter |-> cv]
    ELSE IF pdf_path.content /= "pdf"
    THEN NotConverted(cv, Append(cv.processing_stats.errors, Tok("FileDataError", 0)))
    ELSE LET total_pages == Len(d)
             end == IF end_page = None \/ end_page[1] > total_pages
                    THEN total_pages ELSE end_page[1]
             actual_start == max(1, start_page)
             actual_end == min(total_pages, end)
         IN  Converted(cv, _process_pages_in_batches(
                               d, actual_start, actual_end, cv.chunk_size,
                               [cv.processing_stats EXCEPT
                                   !.total_pages = total_pages]))

\* No direct call made yet.  n counts the calls made; before is
\* processing_stats of the converter the call ran on, as the call found it;
\* output_path is the path _save_output wrote the Markdown to, and
\* overwrites tells that an earlier conversion had written that path.
NoCall ==
    [n |-> 0, fn |-> "", pdf_path |-> TestPdf, start_page |-> 1, end_page |-> None,
     chunk_size |-> DefaultChunkSize,
     before |-> PDFConverterV2(DefaultChunkSize).processing_stats,
     raised |-> "", ret |-> None, markdown |-> None, output_path |-> None,
     overwrites |-> FALSE]

\* ---------------------------------------------------------- OCR service
\* The widths and heights of the images handed to the OCR service, around
\* the sizes _preprocess_image compares with.
Sizes == {50, 100, 150, 200, 1200, 2000}

\* A PIL image: its size, the channels of np.array(image) (1 for a grey
\* image, whose array has two dimensions), the rec_texts the engine finds in
\* it (0 the empty text) and whether the engine raises on it.
Image(width, height, channels, rec_texts, raises) ==
    [width |-> width, height |-> height, channels |-> channels,
     rec_texts |-> rec_texts, raises |-> raises]

Images ==
    { Image(width, height, channels, rec_texts, raises) :
        width \in Sizes, height \in Sizes, channels \in {1, 3, 4},
        rec_texts \in { <<>>, <<0>>, <<1, 0, 2>> }, raises \in BOOLEAN }

NoImage == Image(200, 200, 3, <<>>, FALSE)

\* cv2.resize(img, (new_width, new_height)): the array at the new size, and
\* the resize added to those applied to it.
resize(img, new_width, new_height, fx) ==
    [img EXCEPT !.width = new_width, !.height = new_height,
                !.resized = Append(@, fx)]

\* Lines 117-122 of _preprocess_image: height and width are those read at
\* line 105, before the resize of line 113.
Upscale(img, height, width) ==
    IF height < 100 \/ width < 100
    THEN resize(img, img.width * 3, img.height * 3, Ratio(3, 1))
    ELSE IF height < 200 \/ width < 200
    THEN resize(img, img.width * 2, img.height * 2, Ratio(2, 1))
    ELSE img

\* Lines 108-113 of _preprocess_image; int(width * scale) is
\* width * 1200 \div max(height, width) for the sizes of the model.
Downscale(img, height, width) ==
    IF max(height, width) > 1200
    THEN resize(img, (width * 1200) \div max(height, width),
                (height * 1200) \div max(height, width),
                Ratio(1200, max(height, width)))
    ELSE img

\* OCRService._preprocess_image: the array handed to the engine, in RGB
\* whatever the channels of the image, and the resizes applied to it, each
\* by its factor.
_preprocess_image(image) ==
    LET img_array_bgr == [width |-> image.width, height |-> image.height,
                          channels |-> 3, resized |-> <<>>]
    IN  Upscale(Downscale(img_array_bgr, image.height, image.width),
                image.height, image.width)

\* The types of service a ProcessingConfig names.
ServiceTypes == {"local", "cloud", "remote"}

\* OCRService.__init__: self.ocr is the engine, None when PaddleOCR or its
\* import failed or the service is not local.
OCRService(ocr_service_type, engine_ok) ==
    [ocr_service_type |-> ocr_service_type,
     ocr |-> IF engine_ok /\ ocr_service_type = "local"
             THEN Some("PaddleOCR") ELSE None]

\* Lines 66-73 of _local_ocr: extracted_text after the first n rec_texts.
RECURSIVE extracted_text(_, _)
extracted_text(texts, n) ==
    IF n = 0 THEN <<>>
    ELSE IF texts[n] /= 0
    THEN Append(extracted_text(texts, n - 1), << Tok("text", texts[n]) >>)
    ELSE extracted_text(texts, n - 1)

\* The outcome of a call on the OCR service: the exception that leaves it
\* ("" for none), the string returned and the array the engine was given.
OcrOutcome(raised, ret, img_array) ==
    [raised |-> raised, ret |-> ret, img_array |-> img_array]

\* OCRService._local_ocr: self.ocr.predict raises AttributeError on None,
\* and what the engine raises leaves the call.
_local_ocr(svc, image) ==
    IF svc.ocr = None
    THEN OcrOutcome("AttributeError", None, Some(_preprocess_image(image)))
    ELSE IF image.raises
    THEN OcrOutcome("RuntimeError", None, Some(_preprocess_image(image)))
    ELSE OcrOutcome("",
                    Some(join(NL, extracted_text(image.rec_texts,
                                                 Len(image.rec_texts)))),
                    Some(_preprocess_image(image)))

\* OCRService.perform_ocr.
perform_ocr(svc, image) ==
    IF svc.ocr_service_type = "local" THEN _local_ocr(svc, image)
    ELSE IF svc.ocr_service_type = "cloud"
    THEN OcrOutcome("NotImplementedError", None, None)
    ELSE OcrOutcome("ValueError", None, None)

\* No call made on the OCR service yet.
NoOcrCall == [fn |-> ""] @@ OcrOutcome("", None, None)

\* ------------------------------------------------------------------ state
VARIABLES
    tasks,      \* ConvertService.tasks: job id -> job dict; ids are 1..Len
    worker,     \* per job, its worker thread: position and locals
    clock,      \* the latest value time.time() has returned
    reader,     \* the polling client's get_task_status call in progress
    hist,       \* per job, every value its dict has held, in order
    http,       \* the last HTTP response sent
    converter,  \* ConvertService.pdf_converter, the one PDFConverterV2
    doc,        \* the pages of the PDF stored as fileA.pdf
    call,       \* the last call made on the converter directly, its outcome
    page,       \* a page handed to _process_single_page on its own
    rendered,   \* what _process_single_page made of that page
    written,    \* the paths _save_output has written
    table_data,     \* a table handed to _convert_table_to_markdown
    table_markdown, \* what _convert_table_to_markdown made of it
    image,          \* an image handed to the OCR service
    ocr_service,    \* the OCRService
    ocr_call        \* the last call made on the OCR service, its outcome

vars == <<tasks, worker, clock, reader, hist, http,
          converter, doc, call, page, rendered, written,
          table_data, table_markdown, image, ocr_service, ocr_call>>

\* The state of the converter and of its direct callers.  The job manager
\* never changes it: the call at convert_service.py:98 raises before the
\* first statement of convert_pdf runs.
direct == <<converter, doc, call, page, rendered, written,
            table_data, table_markdown, image, ocr_service, ocr_call>>

\* The state of the callers of _convert_table_to_markdown and of the OCR
\* service.
tools == <<table_data, table_markdown, image, ocr_service, ocr_call>>

\* No table converted and no image recognised yet.
ToolsInit ==
    /\ table_data = <<>>
    /\ table_markdown = None
    /\ image = NoImage
    /\ ocr_service = OCRService("local", TRUE)
    /\ ocr_call = NoOcrCall

TaskIds == 1..MaxTasks

\* uuid.uuid4(): an id no job has; the jobs are numbered in creation order.
uuid4 == Len(tasks) + 1

\* The job dict start_convert_task stores (lines 55-64).
NewTask(file_id, file_info) ==
    [file_id |-> file_id, file_path |-> file_info.file_path,
     status |-> "pending", progress |-> 0, result |-> None, error |-> None,
     start_time |-> None, end_time |-> None]

\* The fields get_task_status reports, in the order it reads them
\* (lines 151-156).
ReadOrder == <<"status", "progress", "result", "error", "start_time", "end_time">>

\* The part of a job dict that get_task_status reports.
Reported(task) ==
    [status |-> task.status, progress |-> task.progress, result |-> task.result,
     error |-> task.error, start_time |-> task.start_time,
     end_time |-> task.end_time]

NoSnap == [status |-> "", progress |-> 0, result |-> None,
           error |-> None, start_time |-> None, end_time |-> None]

\* pc = 0: no call in progress; pc = i: the call is about to read field
\* ReadOrder[i] of job task_id; from: the number of values the job's dict had
\* held when the call fetched it; after: whether the job's worker thread had
\* ended by then.
IdleReader == [pc |-> 0, task_id |-> 0, snap |-> NoSnap, from |-> 0,
               after |-> FALSE]

\* An HTTP response: the route that answered, its status code, the file id or
\* job id of the request, and for a get_task_status that returned, the fields
\* it reported (body), whether the job's dict held exactly these values at
\* some instant of the call (snapshot), and whether the call began after the
\* job's worker thread had ended (after).
NoHttp == [route |-> "", code |-> 0, file_id |-> "", task_id |-> 0,
           body |-> None, snapshot |-> TRUE, after |-> FALSE]

Init ==
    /\ tasks = <<>>
    /\ worker = <<>>
    /\ clock = 0
    /\ reader = IdleReader
    /\ hist = <<>>
    /\ http = NoHttp
    /\ converter = PDFConverterV2(DefaultChunkSize)
    /\ doc = <<TextPage>>
    /\ call = NoCall
    /\ page = NoPage
    /\ rendered = None
    /\ written = {}
    /\ ToolsInit

\* fastapi.status codes the handlers name.
HTTP_200_OK == 200
HTTP_400_BAD_REQUEST == 400
HTTP_404_NOT_FOUND == 404
HTTP_500_INTERNAL_SERVER_ERROR == 500

\* -------------------------------------------------------- the worker thread
\* progress_callback (lines 92-95), the closure handed to convert_pdf: the
\* value it stores in task['progress'].  No statement of the converter
\* calls it.
progress_callback(progress) == IF progress < 99 THEN progress ELSE 99

\* The keyword arguments of the call at line 98.
CallKwargs == {"progress_callback"}

\* A statement of _run_convert_task: its line, the field of the job dict it
\* assigns (if any), and what it does:
\*   "const"      task[field] = value
\*   "now"        task[field] = time.time()
\*   "call"       result = self.pdf_converter.convert_pdf(...)
\*   "open"       markdown_content = open(output_path).read()
\*   "result"     task[field] = the result dict of lines 107-114
\*   "res_error"  task[field] = result.get('error', ...)
\*   "exc"        task[field] = str(e)
S(line, field, kind, value) ==
    [line |-> line, field |-> field, kind |-> kind, value |-> value]

\* The head of the try block without line 86.
TryBlock_skips_processing ==
    << S(87, "start_time", "now", 0),
       S(98, "", "call", 0) >>

\* Lines 85-98, the head of the try block.
TryBlock ==
    << S(86, "status", "const", "processing"),
       S(87, "start_time", "now", 0),
       S(98, "", "call", 0) >>

\* Lines 101-116, taken when result.get('success', False).
SuccessBlock ==
    << S(103, "", "open", 0),
       S(106, "status", "const", "completed"),
       S(107, "result", "result", 0),
       S(116, "progress", "const", 100) >>

\* Lines 118-121, taken otherwise.
FailureBlock ==
    << S(118, "status", "const", "failed"),
       S(119, "error", "res_error", 0),
       S(121, "progress", "const", 100) >>

\* Line 123, the last statement of the try block.
TailBlock ==
    << S(123, "end_time", "now", 0) >>

\* The handler with `task['progress'] = 100` added in front of the status.
ExceptBlock_progress_first ==
    << S(126, "progress", "const", 100),
       S(126, "status", "const", "failed"),
       S(127, "error", "exc", 0),
       S(128, "end_time", "now", 0) >>

\* The handler with the progress reset to -1 to mark the failure.
ExceptBlock_progress_reset ==
    << S(126, "status", "const", "failed"),
       S(126, "progress", "const", -1),
       S(127, "error", "exc", 0),
       S(128, "end_time", "now", 0) >>

\* Lines 126-128, the handler of `except Exception as e`.
ExceptBlock ==
    << S(126, "status", "const", "failed"),
       S(127, "error", "exc", 0),
       S(128, "end_time", "now", 0) >>

Block(name) ==
    CASE name = "try"     -> TryBlock
      [] name = "success" -> SuccessBlock
      [] name = "failure" -> FailureBlock
      [] name = "tail"    -> TailBlock
      [] name = "except"  -> ExceptBlock

\* The worker with a retry: after the handler it runs the try block again.
BlockAfter_retry(name) ==
    CASE name = "success" -> "tail"
      [] name = "failure" -> "tail"
      [] name = "tail"    -> "done"
      [] name = "except"  -> "try"

\* Where control goes from the end of a block: the two branches of the if
\* continue at line 123; after line 123, and after the handler, the function
\* returns and the thread ends.
BlockAfter(name) ==
    CASE name = "success" -> "tail"
      [] name = "failure" -> "tail"
      [] name = "tail"    -> "done"
      [] name = "except"  -> "done"

\* The worker thread as Thread.start() leaves it: about to run line 86.
\* e, result, markdown are the locals of _run_convert_task.
NewWorker == [block |-> "try", i |-> 1, e |-> "", result |-> None,
              markdown |-> None]

\* The worker after the statement it stands at.
Advance(w) ==
    IF w.i < Len(Block(w.block))
    THEN [w EXCEPT !.i = @ + 1]
    ELSE [w EXCEPT !.block = BlockAfter(w.block), !.i = 1]

\* The dict the worker stores in task['result'] (lines 107-114).
TaskResult(task, w) ==
    [file_id |-> task.file_id, markdown_content |-> w.markdown[1],
     output_path |-> w.result[1].output_path]

\* One assignment task[field] = value by the worker of job t.
Assign(t, field, value) ==
    /\ tasks' = [tasks EXCEPT ![t][field] = value]
    /\ hist' = [hist EXCEPT ![t] = Append(@, tasks'[t])]
    /\ worker' = [worker EXCEPT ![t] = Advance(@)]
    /\ UNCHANGED <<clock, reader, http>>

\* ------------------------------------------------- POST /file/convert2md
\* The checks of ConvertService.start_convert_task (lines 37-49): the
\* status code of the HTTPException raised, or 200 when the job is accepted.
\* The route handler re-raises an HTTPException unchanged (lines 205-206).
StartCode(file_id) ==
    LET file_info == get_file_info(file_id)
    IN  IF file_info = None THEN HTTP_404_NOT_FOUND
        ELSE IF file_info[1].file_type /= "pdf" THEN HTTP_400_BAD_REQUEST
        ELSE HTTP_200_OK

\* ConvertService.start_convert_task behind the convert2md route: on a
\* rejected file nothing is stored and no thread is started; otherwise the
\* job dict is stored under a fresh id and its worker thread is started.
start_convert_task(file_id) ==
    LET code == StartCode(file_id)
        task_id == uuid4
    IN  /\ code = HTTP_200_OK => Len(tasks) < MaxTasks
        /\ IF code = HTTP_200_OK
           THEN LET task == NewTask(file_id, get_file_info(file_id)[1])
                IN  /\ tasks' = Append(tasks, task)
                    /\ hist' = Append(hist, <<task>>)
                    /\ worker' = Append(worker, NewWorker)
                    /\ http' = [NoHttp EXCEPT !.route = "convert2md",
                                  !.code = code, !.file_id = file_id,
                                  !.task_id = task_id]
           ELSE /\ UNCHANGED <<tasks, hist, worker>>
                /\ http' = [NoHttp EXCEPT !.route = "convert2md",
                              !.code = code, !.file_id = file_id]
        /\ UNCHANGED <<clock, reader>>
        /\ UNCHANGED direct

\* ConvertService._run_convert_task: the next statement of the worker thread
\* of job t.  time.time() returns a value not before the one it returned
\* last.
_run_convert_task(t) ==
    /\ t \in DOMAIN tasks
    /\ worker[t].block /= "done"
    /\ UNCHANGED direct
    /\ LET w == worker[t]
           task == tasks[t]
           s == Block(w.block)[w.i]
       IN  CASE s.kind = "const" -> Assign(t, s.field, s.value)
             [] s.kind = "exc" -> Assign(t, s.field, Some(w.e))
             [] s.kind = "res_error" -> Assign(t, s.field, Some(w.result[1].error))
             [] s.kind = "result" -> Assign(t, s.field, Some(TaskResult(task, w)))
             [] s.kind = "now" ->
                    \E now \in clock..MaxClock :
                        /\ tasks' = [tasks EXCEPT ![t][s.field] = Some(now)]
                        /\ hist' = [hist EXCEPT ![t] = Append(@, tasks'[t])]
                        /\ worker' = [worker EXCEPT ![t] = Advance(@)]
                        /\ clock' = now
                        /\ UNCHANGED <<reader, http>>
             [] s.kind = "call" ->
                    \E now \in clock..MaxClock :
                    LET out == convert_pdf(task.file_path, CallKwargs, now)
                    IN  /\ worker' = [worker EXCEPT ![t] =
                              IF out.raised
                              THEN [w EXCEPT !.block = "except", !.i = 1,
                                             !.e = out.exc]
                              ELSE [w EXCEPT !.result = out.ret, !.i = 1,
                                             !.block = IF out.ret[1].success
                                                       THEN "success"
                                                       ELSE "failure"]]
                        /\ clock' = IF out.exc = TypeError THEN clock ELSE now
                        /\ UNCHANGED <<tasks, hist, reader, http>>
             [] s.kind = "open" ->
                    /\ worker' = [worker EXCEPT ![t] =
                          Advance([w EXCEPT !.markdown = Some(w.result[1].output_path)])]
                    /\ UNCHANGED <<tasks, hist, clock, reader, http>>

\* ------------------------------- GET /file/convert2md/result/{task_id}
\* ConvertService.get_task_status, lines 140-146: an unknown id raises
\* HTTPException(status_code=HTTP_200_OK), which the route handler re-raises
\* unchanged (lines 243-244); otherwise the job dict is fetched.
get_task_status(task_id) ==
    /\ reader.pc = 0
    /\ IF task_id \notin DOMAIN tasks
       THEN /\ http' = [NoHttp EXCEPT !.route = "result",
                          !.code = HTTP_200_OK, !.task_id = task_id]
            /\ UNCHANGED reader
       ELSE /\ reader' = [pc |-> 1, task_id |-> task_id, snap |-> NoSnap,
                          from |-> Len(hist[task_id]),
                          after |-> worker[task_id].block = "done"]
            /\ UNCHANGED http
    /\ UNCHANGED <<tasks, worker, clock, hist>>
    /\ UNCHANGED direct

\* Whether job t's dict reported exactly the fields snap at some instant
\* since it had held its from-th value.
HeldAtOneInstant(t, from, snap) ==
    \E i \in from..Len(hist[t]) : Reported(hist[t][i]) = snap

\* ConvertService.get_task_status, lines 148-157: the call reads the next
\* field of the job dict; after the last field it returns and the route
\* handler answers 200 with the fields read.
ReadField ==
    /\ reader.pc \in 1..Len(ReadOrder)
    /\ LET t == reader.task_id
           field == ReadOrder[reader.pc]
           snap == [reader.snap EXCEPT ![field] = tasks[t][field]]
       IN  IF reader.pc < Len(ReadOrder)
           THEN /\ reader' = [reader EXCEPT !.pc = @ + 1, !.snap = snap]
                /\ UNCHANGED http
           ELSE /\ reader' = IdleReader
                /\ http' = [route |-> "result", code |-> HTTP_200_OK,
                            file_id |-> tasks[t].file_id, task_id |-> t,
                            body |-> Some(snap),
                            snapshot |-> HeldAtOneInstant(t, reader.from, snap),
                            after |-> reader.after]
    /\ UNCHANGED <<tasks, worker, clock, hist>>
    /\ UNCHANGED direct

\* The status code of GET /file/info/{file_id} with the HTTPException of the
\* else branch let through.
InfoCode_404_let_through(file_id) ==
    IF get_file_info(file_id) /= None THEN HTTP_200_OK
    ELSE HTTP_404_NOT_FOUND

\* The status code of GET /file/info/{file_id} (file_routes.py, lines
\* 116-140): the HTTPException raised for a file that is not there is
\* raised inside the try, and `except Exception` answers it with 500.
InfoCode(file_id) ==
    IF get_file_info(file_id) /= None THEN HTTP_200_OK
    ELSE HTTP_500_INTERNAL_SERVER_ERROR

\* The route handler get_file_info of file_routes.py.  The metadata a 200
\* carries is not kept.
file_routes_get_file_info(file_id) ==
    /\ http' = [NoHttp EXCEPT !.route = "info", !.code = InfoCode(file_id),
                  !.file_id = file_id]
    /\ UNCHANGED <<tasks, worker, clock, reader, hist>>
    /\ UNCHANGED direct

Next ==
    \/ \E file_id \in FileIds : start_convert_task(file_id)
    \/ \E file_id \in FileIds : file_routes_get_file_info(file_id)
    \/ \E t \in TaskIds : _run_convert_task(t)
    \/ \E task_id \in TaskIds : get_task_status(task_id)
    \/ ReadField

Spec == Init /\ [][Next]_vars

\* ------------------------------------------------------------- vocabulary
Terminal(status) == status \in {"completed", "failed"}

\* The worker thread of job t has ended.
Finished(t) == worker[t].block = "done"

\* The last response is a get_task_status that returned the fields of a job.
Polled == http.route = "result" /\ http.body /= None

\* A get_task_status returns the fields of job http.task_id in this step,
\* and the response before it was one for the same job.
PolledAgain ==
    /\ Polled
    /\ http'.route = "result" /\ http'.body /= None
    /\ http'.task_id = http.task_id
    /\ reader.pc = Len(ReadOrder) /\ reader'.pc = 0

\* -------------------------------------------------------------------- C1
\* C1: a job whose file is a valid PDF, which the converter can convert,
\* is ended by its worker in state 'completed', with a result and no error.
C1_ValidPdfCompletes ==
    \A t \in DOMAIN tasks :
        (Finished(t) /\ tasks[t].file_path.content = "pdf")
            => /\ tasks[t].status = "completed"
               /\ tasks[t].result /= None
               /\ tasks[t].error = None

\* -------------------------------------------------------------------- C2
\* C2: in every reachable state, a job whose status is 'completed' or
\* 'failed' has progress 100 and its end_time set.
C2_TerminalIsFinal ==
    \A t \in DOMAIN tasks :
        Terminal(tasks[t].status)
            => tasks[t].progress = 100 /\ tasks[t].end_time /= None

\* -------------------------------------------------------------------- C3
\* C3: once a job's status is 'completed' or 'failed', no step of any thread
\* changes it.
C3_TerminalIrreversible ==
    [][\A t \in DOMAIN tasks :
          Terminal(tasks[t].status) => tasks'[t].status = tasks[t].status]_vars

\* A job is 'failed', its worker has run on to its end after setting the
\* status, and a get_task_status that began afterwards has reported it.
C3_Witness ==
    /\ Polled /\ http.after
    /\ http.body[1].status = "failed"
    /\ Finished(http.task_id)
    /\ tasks[http.task_id].status = "failed"

\* -------------------------------------------------------------------- C4
\* C4: when a get_task_status returns a terminal status, the next
\* get_task_status on the same job returns the same status, start_time,
\* end_time, result and error.
C4_TerminalObservationStable ==
    [][(PolledAgain /\ Terminal(http.body[1].status))
          => /\ http'.body[1].status = http.body[1].status
             /\ http'.body[1].start_time = http.body[1].start_time
             /\ http'.body[1].end_time = http.body[1].end_time
             /\ http'.body[1].result = http.body[1].result
             /\ http'.body[1].error = http.body[1].error]_vars

\* -------------------------------------------------------------------- C5
\* C5: the fields a get_task_status returns are the values the job's dict
\* held together at one instant of the call.
C5_ConsistentSnapshot == Polled => http.snapshot

\* -------------------------------------------------------------------- C6
\* C6: of two get_task_status responses for the same job, the later one
\* never reports a smaller progress.
C6_ProgressMonotone ==
    [][PolledAgain => http'.body[1].progress >= http.body[1].progress]_vars

\* A job has been polled while its worker was running, and a second poll,
\* begun after the worker ended, is about to return.
C6_Witness ==
    /\ Polled /\ ~http.after
    /\ reader.pc = Len(ReadOrder) /\ reader.after
    /\ reader.task_id = http.task_id

\* -------------------------------------------------------------------- C7
\* C7: a get_task_status that begins after the worker of a failing job has
\* ended returns status 'failed', progress 100, an error, and start_time and
\* end_time set.
C7_FailedJobReport ==
    (Polled /\ http.after /\ tasks[http.task_id].status = "failed")
        => /\ http.body[1].status = "failed"
           /\ http.body[1].progress = 100
           /\ http.body[1].error /= None
           /\ http.body[1].start_time /= None
           /\ http.body[1].end_time /= None

\* -------------------------------------------------------------------- C8
\* C8: a job whose status is 'pending' or 'processing' has progress at most
\* 99; progress is 100 only in a terminal status.
C8_ProgressBelow100UntilTerminal ==
    \A t \in DOMAIN tasks :
        /\ tasks[t].status \in {"pending", "processing"} => tasks[t].progress <= 99
        /\ tasks[t].progress = 100 => Terminal(tasks[t].status)

\* A job is 'processing' and the call of the converter (line 98) is behind
\* its worker.
C8_Witness ==
    \E t \in DOMAIN tasks :
        /\ tasks[t].status = "processing"
        /\ worker[t].block /= "try"

\* -------------------------------------------------------------------- C9
\* The file ids the upload directory lists with a type other than 'pdf'.
NonPdfIds == { r.file_id : r \in { x \in list_files : x.file_type /= "pdf" } }

\* The file ids the upload directory does not list.
UnknownIds == FileIds \ { r.file_id : r \in list_files }

\* C9: start_convert_task answers an unknown file_id with 404 and a file
\* whose type is not 'pdf' with 400; in both cases no job is stored and no
\* worker is started.
C9_RejectedSubmission ==
    [][\A f \in FileIds :
          start_convert_task(f) =>
              /\ f \in UnknownIds => http'.code = HTTP_404_NOT_FOUND
              /\ f \in NonPdfIds => http'.code = HTTP_400_BAD_REQUEST
              /\ f \in UnknownIds \cup NonPdfIds
                    => tasks' = tasks /\ worker' = worker]_vars

\* -------------------------------------------------------------------- C10
\* C10: get_task_status with a task id that is not in the registry answers
\* 404 and leaves the registry unchanged.
C10_UnknownTaskNotFound ==
    [][\A id \in TaskIds :
          (get_task_status(id) /\ id \notin DOMAIN tasks)
              => http'.code = HTTP_404_NOT_FOUND /\ tasks' = tasks]_vars

\* ===================================================================
\* The converter called directly, as the tests and convert_pdf_file do.
\* ===================================================================
\* The job manager's state, which a direct call leaves alone.
service == <<tasks, worker, clock, reader, hist, http>>

\* The page numbers a caller passes: 0 is below the first page, and
\* MaxPages is beyond the last page of a document that is shorter.  The
\* end_page is absent, the first page or MaxPages.
StartPages == 0..MaxPages
EndPages == {None, Some(1), Some(MaxPages)}

\* A test's PDFConverterV2(ConversionConfig(chunk_size=...)) and the PDF it
\* converts.  The calls are all made within the last second of the clock;
\* TimedSpec tells their times apart.
ConverterInit ==
    /\ tasks = <<>>
    /\ worker = <<>>
    /\ clock = MaxClock
    /\ reader = IdleReader
    /\ hist = <<>>
    /\ http = NoHttp
    /\ converter \in { PDFConverterV2(chunk_size) : chunk_size \in ChunkSizes }
    /\ doc \in Docs
    /\ call = NoCall
    /\ page = NoPage
    /\ rendered = None
    /\ written = {}
    /\ ToolsInit

\* A call with its outcome, made at time now: the record of the call, the
\* converter afterwards, which is the one converter when the call ran on it
\* (shared), and the path _save_output wrote the Markdown to, if the call
\* came to write it.
Called(fn, cv, pdf_path, start_page, end_page, outcome, shared, now) ==
    /\ call' = [n |-> call.n + 1, fn |-> fn, pdf_path |-> pdf_path,
                start_page |-> start_page, end_page |-> end_page,
                chunk_size |-> cv.chunk_size, before |-> cv.processing_stats,
                raised |-> outcome.raised, ret |-> outcome.ret,
                markdown |-> outcome.markdown,
                output_path |-> IF outcome.markdown /= None
                                THEN Some(_generate_output_path(pdf_path, now))
                                ELSE None,
                overwrites |-> /\ outcome.markdown /= None
                               /\ _generate_output_path(pdf_path, now) \in written]
    /\ converter' = IF shared THEN outcome.converter ELSE converter
    /\ written' = IF outcome.markdown /= None
                  THEN written \cup {_generate_output_path(pdf_path, now)}
                  ELSE written
    /\ clock' = now

\* converter.convert_pdf(pdf_path, start_page=start_page, end_page=end_page)
\* on the one converter, whose processing_stats the call updates in place.
\* time.time() returns a value not before the one it returned last.
PDFConverterV2_convert_pdf(pdf_path, start_page, end_page) ==
    /\ call.n < MaxCalls
    /\ \E now \in clock..MaxClock,
          outcome \in { run_convert_pdf(converter, doc, pdf_path,
                                        start_page, end_page) } :
          Called("convert_pdf", converter, pdf_path, start_page, end_page,
                 outcome, TRUE, now)
    /\ UNCHANGED <<doc, page, rendered>>
    /\ UNCHANGED <<tasks, worker, reader, hist, http>>
    /\ UNCHANGED tools

\* convert_pdf_file(pdf_path, start_page=start_page, end_page=end_page): a
\* converter of its own, made with the default config.
convert_pdf_file(pdf_path, start_page, end_page) ==
    /\ call.n < MaxCalls
    /\ \E now \in clock..MaxClock,
          outcome \in { run_convert_pdf(PDFConverterV2(DefaultChunkSize), doc,
                                        pdf_path, start_page, end_page) } :
          Called("convert_pdf_file", PDFConverterV2(DefaultChunkSize), pdf_path,
                 start_page, end_page, outcome, FALSE, now)
    /\ UNCHANGED <<doc, page, rendered>>
    /\ UNCHANGED <<tasks, worker, reader, hist, http>>
    /\ UNCHANGED tools

ConverterNext ==
    \/ \E pdf_path \in Paths, start_page \in StartPages, end_page \in EndPages :
          PDFConverterV2_convert_pdf(pdf_path, start_page, end_page)
    \/ \E pdf_path \in Paths, start_page \in StartPages, end_page \in EndPages :
          convert_pdf_file(pdf_path, start_page, end_page)

ConverterSpec == ConverterInit /\ [][ConverterNext]_vars

\* ------------------------------------------------------------- vocabulary
\* The last call returned the success dict.
Succeeded == call.ret /= None /\ call.ret[1].success

\* The pages of the document that the last call's range names: from
\* start_page, at least 1, to end_page, at most the last page.
OwnRange ==
    { p \in 1..Len(doc) :
        /\ p >= call.start_page
        /\ call.end_page /= None => p <= call.end_page[1] }

\* The pages of that range whose processing raises, and the others.
FailedPages == { p \in OwnRange : doc[p].raises }
GoodPages == OwnRange \ FailedPages

\* The pieces of a string that are of one of the kinds.
RECURSIVE Pieces(_, _)
Pieces(s, kinds) ==
    IF s = <<>> THEN <<>>
    ELSE (IF s[1].kind \in kinds THEN <<s[1]>> ELSE <<>>) \o Pieces(Tail(s), kinds)

\* The range of the last call does not respect start_page >= 1 and
\* end_page >= start_page.
BadRange ==
    \/ call.start_page < 1
    \/ call.end_page /= None /\ call.end_page[1] < call.start_page

\* C11: the pages_processed of a successful conversion is the number of
\* pages of its own range that were processed without error, whatever the
\* converter has converted before.
C11_PagesProcessedOwnRange ==
    Succeeded => call.ret[1].pages_processed = Cardinality(GoodPages)

\* C12: a call with start_page < 1 or end_page < start_page fails with
\* ValueError, also for a path that names no file; a missing path with a
\* valid range fails with FileNotFoundError; an existing path without the
\* .pdf extension fails with ValueError.
C12_ValidationErrors ==
    call.n > 0 =>
        /\ BadRange => call.raised = "ValueError"
        /\ ~BadRange /\ ~exists(call.pdf_path) => call.raised = "FileNotFoundError"
        /\ exists(call.pdf_path) /\ call.pdf_path.ext /= ".pdf"
              => call.raised = "ValueError"

\* C13: convert_pdf_file on a path that does not exist returns a dict whose
\* success is false; no exception leaves the call.
C13_MissingFileReturnsFailure ==
    call.fn = "convert_pdf_file" /\ ~exists(call.pdf_path) =>
        /\ call.raised = ""
        /\ call.ret /= None
        /\ ~call.ret[1].success

\* The page headers and error comments of a string, in order.
PageMarks(s) == Pieces(s, {"header", "error"})

\* C14: a conversion that gets as far as the pages succeeds whichever pages
\* raise; its output holds, for the pages of its range in ascending order,
\* the page's header or, for a page that raised, the page's error comment;
\* one error is recorded per page that raised and none else; processed_pages
\* grows by the pages that did not raise.
C14_PageErrorDoesNotAbort ==
    call.n > 0 /\ call.raised = "" /\ call.pdf_path.content = "pdf" =>
        /\ Succeeded
        /\ LET marks == PageMarks(call.markdown[1])
               first == IF call.start_page > 1 THEN call.start_page ELSE 1
           IN  /\ Len(marks) = Cardinality(OwnRange)
               /\ \A i \in 1..Len(marks) :
                     /\ marks[i].n = first + i - 1
                     /\ marks[i].kind = "error" <=> doc[marks[i].n].raises
               /\ call.ret[1].errors =
                     call.before.errors
                       \o [ i \in 1..Len(Pieces(marks, {"error"})) |->
                              Tok("message", Pieces(marks, {"error"})[i].n) ]
        /\ call.ret[1].pages_processed =
              call.before.processed_pages + Cardinality(GoodPages)

\* C14 witness: a successful conversion of a range in which a page raises
\* and a later page does not.
C14_Witness ==
    /\ Succeeded
    /\ \E p \in FailedPages : \E q \in GoodPages : p < q

\* C15: the Markdown of a conversion is the Markdown that
\* _process_pages_in_batches produces for the same pages with every other
\* chunk size, from 1 up to more pages than the document has.
C15_ChunkSizeIrrelevant ==
    Succeeded =>
        \A chunk_size \in 1..10 :
            _process_pages_in_batches(
                doc, max(1, call.start_page),
                IF call.end_page = None THEN Len(doc)
                ELSE min(Len(doc), call.end_page[1]),
                chunk_size, call.before).markdown
              = call.markdown[1]

\* C15 witness: a conversion with chunk_size = 1 of two pages or more, one
\* of which raises.
C15_Witness ==
    /\ Succeeded
    /\ call.chunk_size = 1
    /\ Cardinality(OwnRange) >= 2
    /\ FailedPages /= {}

\* The number of pieces of kind in a string.
Count(s, kind) == Len(Pieces(s, {kind}))

\* C16: the tables_found of a successful conversion is the number of tables
\* rendered into its Markdown.
C16_TablesFoundCountsRendered ==
    Succeeded => call.ret[1].tables_found = Count(call.markdown[1], "table")

\* ===================================================================
\* One page handed to _process_single_page.
\* ===================================================================
PageInit ==
    /\ tasks = <<>>
    /\ worker = <<>>
    /\ clock = 0
    /\ reader = IdleReader
    /\ hist = <<>>
    /\ http = NoHttp
    /\ converter = PDFConverterV2(DefaultChunkSize)
    /\ doc = <<TextPage>>
    /\ call = NoCall
    /\ page \in Layouts
    /\ rendered = None
    /\ written = {}
    /\ ToolsInit

\* self._process_single_page(doc, 0) on the page: the string it returns
\* (markdown), and the list formatted_content that
\* _extract_text_with_table_placeholders built on the way (elements).
ProcessSinglePage ==
    /\ rendered = None
    /\ rendered' = Some([elements |-> formatted_content(page),
                         markdown |-> _process_single_page(page, 0)])
    /\ UNCHANGED <<converter, doc, call, page, written>>
    /\ UNCHANGED service
    /\ UNCHANGED tools

PageNext == ProcessSinglePage

PageSpec == PageInit /\ [][PageNext]_vars

\* ------------------------------------------------------------- vocabulary
\* The elements emitted for the page: the entries of formatted_content
\* other than the empty lines around a placeholder, each one piece.
RECURSIVE NonEmpty(_)
NonEmpty(list) ==
    IF list = <<>> THEN <<>>
    ELSE (IF list[1] = <<>> THEN <<>> ELSE <<list[1][1]>>) \o NonEmpty(Tail(list))

Elements == NonEmpty(rendered[1].elements)

\* The table a placeholder stands at: TABLE_PLACEHOLDER_{n} is emitted for
\* entry n (from 0) of the sorted table positions.
TableAt(n) == page.tables[_detect_table_positions(page)[n + 1].i + 1]

\* The y0 an element is anchored at: of its block or of its table.
yAnchor(e) ==
    IF e.kind = "placeholder" THEN TableAt(e.n).bbox[2]
    ELSE page.blocks[CHOOSE i \in DOMAIN page.blocks :
                        page.blocks[i].text = e.n].bbox[2]

\* More than 0.7 of text block b lies inside the bbox of some table.
MostlyInsideATable(b) ==
    /\ b.lines
    /\ \E t \in DOMAIN page.tables :
          Greater(_bbox_overlap_ratio(b.bbox, page.tables[t].bbox), Ratio(7, 10))

\* C17: a page with exactly one table, a valid one, and no text block is
\* rendered with exactly one Markdown table.
C17_TableOnlyPageRendered ==
    ( /\ rendered /= None
      /\ Len(page.tables) = 1
      /\ _is_valid_table(page.tables[1].data)
      /\ \A i \in DOMAIN page.blocks : ~page.blocks[i].lines )
    => Count(rendered[1].markdown, "table") = 1

\* C18: the elements emitted for a page are in non-decreasing order of
\* yAnchor.
C18_ElementsSortedByAnchor ==
    rendered /= None =>
        \A i, j \in DOMAIN Elements :
            i < j => yAnchor(Elements[i]) <= yAnchor(Elements[j])

\* C19: a text block of which more than 0.7 lies inside the bbox of some
\* table of the page contributes no text, neither to the elements nor to
\* the page's Markdown.
C19_CoveredBlockEmitsNoText ==
    rendered /= None =>
        \A i \in DOMAIN page.blocks :
            MostlyInsideATable(page.blocks[i]) =>
                /\ \A k \in DOMAIN Elements :
                      Elements[k] /= Tok("text", page.blocks[i].text)
                /\ \A k \in DOMAIN rendered[1].markdown :
                      rendered[1].markdown[k] /= Tok("text", page.blocks[i].text)

\* C19 witness: a processed page with a block of text more than 0.7 inside a
\* table, and another block whose text is emitted.
C19_Witness ==
    /\ rendered /= None
    /\ \E i \in DOMAIN page.blocks :
          MostlyInsideATable(page.blocks[i]) /\ page.blocks[i].text /= 0
    /\ Count(rendered[1].markdown, "text") > 0

\* C20: for every table of a page at most one placeholder is emitted.
C20_OnePlaceholderPerTable ==
    rendered /= None =>
        \A n \in 0..(Len(page.tables) - 1) :
            Cardinality({ k \in DOMAIN Elements :
                            Elements[k] = Tok("placeholder", n) }) <= 1

\* C20 witness: a processed page on which two text blocks lie more than 0.7
\* inside the same table.
C20_Witness ==
    /\ rendered /= None
    /\ \E i, j \in DOMAIN page.blocks : \E t \in DOMAIN page.tables :
          /\ i /= j
          /\ page.blocks[i].lines /\ page.blocks[j].lines
          /\ Greater(_bbox_overlap_ratio(page.blocks[i].bbox, page.tables[t].bbox),
                     Ratio(7, 10))
          /\ Greater(_bbox_overlap_ratio(page.blocks[j].bbox, page.tables[t].bbox),
                     Ratio(7, 10))

\* Rendering rejects table t: fewer than two rows, no row of
\* table_min_columns cells, or blank cells only.
Rejected(t) == ~_is_valid_table(t.data)

\* C21: a table that rendering rejects leaves nothing in the page's Markdown:
\* no placeholder comment for it and no rows of it.
C21_RejectedTableLeavesNothing ==
    rendered /= None =>
        \A k \in DOMAIN rendered[1].markdown :
            LET piece == rendered[1].markdown[k]
            IN  /\ piece.kind = "placeholder" => ~Rejected(TableAt(piece.n))
                /\ piece.kind = "table" =>
                      \E t \in DOMAIN page.tables :
                          /\ ~Rejected(page.tables[t])
                          /\ piece.data = markdown_lines(page.tables[t].data)

\* ------------------------------------------- a table converted by itself
\* The tables _convert_table_to_markdown is called with: up to MaxRows rows
\* of up to MaxCols cells each, the rows of any lengths.
MaxRows == 3
MaxCols == 2
Cells == {"a", "x\ny"}
Grids == SeqUpTo(SeqUpTo(Cells, MaxCols), MaxRows)

\* The job manager, the converter and the OCR service as they are made.
Unused ==
    /\ tasks = <<>>
    /\ worker = <<>>
    /\ clock = 0
    /\ reader = IdleReader
    /\ hist = <<>>
    /\ http = NoHttp
    /\ converter = PDFConverterV2(DefaultChunkSize)
    /\ doc = <<TextPage>>
    /\ call = NoCall
    /\ page = NoPage
    /\ rendered = None
    /\ written = {}

TableInit ==
    /\ Unused
    /\ table_data \in Grids
    /\ table_markdown = None
    /\ image = NoImage
    /\ ocr_service = OCRService("local", TRUE)
    /\ ocr_call = NoOcrCall

\* converter._convert_table_to_markdown(table_data), as the test calls it.
ConvertTable ==
    /\ table_markdown = None
    /\ table_markdown' = Some(_convert_table_to_markdown(table_data))
    /\ UNCHANGED <<table_data, image, ocr_service, ocr_call>>
    /\ UNCHANGED <<converter, doc, call, page, rendered, written>>
    /\ UNCHANGED service

TableNext == ConvertTable

TableSpec == TableInit /\ [][TableNext]_vars

\* C22: of a table of two rows or more, _convert_table_to_markdown makes the
\* header line from the first row, a separator line of one --- per header
\* cell, and one line per further row in order, each of exactly as many
\* cells as the header: the row's own cells, cut at the header's length or
\* filled up with empty cells.
C22_HeaderSeparatorRows ==
    (table_markdown /= None /\ Len(table_data) >= 2) =>
        /\ Len(table_markdown[1]) = 1
        /\ table_markdown[1][1].kind = "table"
        /\ LET lines == table_markdown[1][1].data
               headers == lines[1]
           IN  /\ Len(lines) = Len(table_data) + 1
               /\ Len(headers) = Len(table_data[1])
               /\ \A c \in 1..Len(headers) :
                     headers[c] = clean_cell(table_data[1][c])
               /\ lines[2] = [ c \in 1..Len(headers) |-> "---" ]
               /\ \A r \in 2..Len(table_data) :
                     /\ Len(lines[r + 1]) = Len(headers)
                     /\ \A c \in 1..Len(headers) :
                           lines[r + 1][c] =
                               IF c <= Len(table_data[r])
                               THEN clean_cell(table_data[r][c]) ELSE ""

\* C22 witness: a table converted whose header has one cell and whose
\* further rows are one longer and one shorter than the header.
C22_Witness ==
    /\ table_markdown /= None
    /\ Len(table_data) = 3
    /\ Len(table_data[1]) = 1
    /\ Len(table_data[2]) = 2
    /\ Len(table_data[3]) = 0

\* ------------------------------------------------ the OCR service by itself
\* An OCRService of any configuration, with or without its engine, and an
\* image.
OcrInit ==
    /\ Unused
    /\ table_data = <<>>
    /\ table_markdown = None
    /\ image \in Images
    /\ ocr_service \in { OCRService(ocr_service_type, engine_ok) :
                           ocr_service_type \in ServiceTypes,
                           engine_ok \in BOOLEAN }
    /\ ocr_call = NoOcrCall

\* The record of a call on the OCR service.
OcrCalled(fn, outcome) ==
    /\ ocr_call' = [fn |-> fn, raised |-> outcome.raised, ret |-> outcome.ret,
                    img_array |-> outcome.img_array]
    /\ UNCHANGED <<table_data, table_markdown, image, ocr_service>>
    /\ UNCHANGED <<converter, doc, call, page, rendered, written>>
    /\ UNCHANGED service

\* ocr_service._preprocess_image(image).
PreprocessImage ==
    OcrCalled("_preprocess_image",
              OcrOutcome("", None, Some(_preprocess_image(image))))

\* ocr_service.perform_ocr(image).
PerformOcr == OcrCalled("perform_ocr", perform_ocr(ocr_service, image))

OcrNext ==
    \/ PreprocessImage
    \/ PerformOcr

OcrSpec == OcrInit /\ [][OcrNext]_vars

\* The resizes the rule selects for an image of the given size from the
\* larger of width and height, each by its factor.
SelectedResizes(width, height) ==
    IF max(width, height) > 1200 THEN << Ratio(1200, max(width, height)) >>
    ELSE IF max(width, height) < 100 THEN << Ratio(3, 1) >>
    ELSE IF max(width, height) < 200 THEN << Ratio(2, 1) >>
    ELSE <<>>

\* C23: the resizes preprocessing applies to an image are those the rule
\* selects from max(w, h): one downscale by 1200/max above 1200, one x3
\* upscale below 100, one x2 upscale from 100 to below 200, else none; never
\* more than one.
C23_ResizeSelectedFromMax ==
    ocr_call.img_array /= None =>
        /\ ocr_call.img_array[1].resized =
               SelectedResizes(image.width, image.height)
        /\ Len(ocr_call.img_array[1].resized) <= 1

\* C24: perform_ocr on a local service lets no failure of the engine out:
\* it returns '' when the engine is absent or raises, and when no text was
\* recognised.
C24_EngineFailureGivesEmptyString ==
    (ocr_call.fn = "perform_ocr" /\ ocr_service.ocr_service_type = "local") =>
        /\ ocr_call.raised = ""
        /\ ( \/ ocr_service.ocr = None
             \/ image.raises
             \/ \A n \in DOMAIN image.rec_texts : image.rec_texts[n] = 0 )
              => ocr_call.ret = Some(<<>>)

\* C25: GET /file/info/{file_id} answers a file_id the FileService does not
\* know with 404.
C25_UnknownFileInfoNotFound ==
    (http.route = "info" /\ get_file_info(http.file_id) = None)
        => http.code = HTTP_404_NOT_FOUND

\* An element of formatted_content with the placeholder of a table replaced
\* by the rendering of that table.
Substituted(e) ==
    IF e /= <<>> /\ e[1].kind = "placeholder"
    THEN _extract_single_table(TableAt(e[1].n))
    ELSE e

\* C26: on a page with several tables, all of them valid, each placeholder
\* is replaced by the rendering of the table it was emitted for, in whatever
\* order the detector lists the tables.
C26_PlaceholderGetsItsOwnTable ==
    ( /\ rendered /= None
      /\ Len(page.tables) >= 2
      /\ \A t \in DOMAIN page.tables : ~Rejected(page.tables[t]) )
    => rendered[1].markdown =
           join(NL, << << Tok("header", 1) >>,
                       join(NL, [ k \in DOMAIN rendered[1].elements |->
                                    Substituted(rendered[1].elements[k]) ]) >>)

\* C27: the overlap test uses the bboxes the detector reports: a text block
\* of which no more than 0.7 lies inside the bbox of any table of the page
\* is emitted as text.
C27_BlockOutsideTablesIsText ==
    rendered /= None =>
        \A b \in DOMAIN page.blocks :
            ( /\ page.blocks[b].lines
              /\ page.blocks[b].text /= 0
              /\ ~MostlyInsideATable(page.blocks[b]) )
            => \E k \in DOMAIN rendered[1].elements :
                  rendered[1].elements[k] = << Tok("text", page.blocks[b].text) >>

\* ------------------------------------------- conversions at their times
\* The converter of the service and the PDF stored as fileA.pdf, a page of
\* text, at the first second of the clock.
TimedInit ==
    /\ Unused
    /\ ToolsInit

TimedNext == ConverterNext

TimedSpec == TimedInit /\ [][TimedNext]_vars

\* C28: no two conversions write their Markdown to the same path, be they
\* of the same file and within the same second of the clock.
C28_OutputPathsDistinct ==
    call.output_path /= None => ~call.overwrites

\* ------------------------------------------------- the pages of a range
\* The last page of the effective range of the last call.
LastPage ==
    IF call.end_page = None THEN Len(doc) ELSE min(Len(doc), call.end_page[1])

\* What page p of the document contributes to the output: its heading, a
\* line break and its content, or its error comment when its processing
\* raises.  The content is what _process_single_page puts after the heading.
PageContent(p) ==
    LET whole == _process_single_page(doc[p], 0)
    IN  SubSeq(whole, 3, Len(whole))

Section(p) ==
    IF doc[p].raises THEN << Tok("error", p) >>
    ELSE << Tok("header", p), NL >> \o PageContent(p)

\* C29: a conversion with start_page >= 1 and end_page absent or not below
\* start_page puts out the pages from start_page to the smaller of end_page
\* and the number of pages, each once and in ascending order, every page
\* that was processed without error as its heading followed by its content.
C29_EffectiveRangeInOrder ==
    (call.n > 0 /\ ~BadRange /\ Succeeded) =>
        call.markdown[1] =
            join(NL, [ i \in 1..(LastPage - call.start_page + 1) |->
                         Section(call.start_page + i - 1) ])

\* C29 witness: a successful conversion from the first page on with an
\* end_page beyond the last page, the first page processed without error.
C29_Witness ==
    /\ Succeeded
    /\ call.start_page = 1
    /\ call.end_page /= None
    /\ call.end_page[1] > Len(doc)
    /\ ~doc[1].raises

\* ------------------------------------------------ the jobs, run fairly
\* The job manager with every worker thread scheduled again and again until
\* it ends: threading.Thread runs _run_convert_task to its return, and the
\* call of the converter at line 98 returns or raises.
FairSpec == Spec /\ \A t \in TaskIds : WF_vars(_run_convert_task(t))

\* The changes of status the lifecycle allows.
Lifecycle ==
    { <<"pending", "processing">>, <<"processing", "completed">>,
      <<"processing", "failed">> }

\* C30: every accepted job comes to status 'completed' or 'failed', and the
\* status of a job changes only along pending -> processing -> completed or
\* failed, in steps of that job's own worker.
C30_JobLifecycle ==
    /\ \A t \in TaskIds :
          (t \in DOMAIN tasks)
              ~> (t \in DOMAIN tasks /\ Terminal(tasks[t].status))
    /\ [][\A t \in DOMAIN tasks :
             tasks'[t].status /= tasks[t].status
                 => /\ <<tasks[t].status, tasks'[t].status>> \in Lifecycle
                    /\ _run_convert_task(t)]_vars

\* C30 witness: a job accepted as 'pending' whose worker has set it to
\* 'processing' and later to a terminal status, and has ended.
C30_Witness ==
    \E t \in DOMAIN tasks :
        /\ Finished(t)
        /\ hist[t][1].status = "pending"
        /\ \E i, j \in DOMAIN hist[t] :
              /\ i < j
              /\ hist[t][i].status = "processing"
              /\ Terminal(hist[t][j].status)

====
